---- MODULE Spec2Model ----
(***************************************************************************)
(* DailyRollingFileAppender (src/src/appenders.rs): a daily rolling log    *)
(* file writer with a retention pass.  The model follows the code          *)
(* statement by statement: the two clock reads of write/make_writer, the   *)
(* atomic next_date with its compare-and-swap, the reader/writer lock      *)
(* around the File, create_writer, and remove_old_files over the           *)
(* directory listing.                                                      *)
(*                                                                         *)
(* A day is an integer d >= 0, the d-th day after 2022-05-29 (UTC).  A     *)
(* file name is a sequence of one-character strings.                       *)
(***************************************************************************)
EXTENDS Integers, Sequences, FiniteSets, TLC

\* ------------------------------------------------------------------ bounds
NThreads == 2
MaxDay == 2
MaxCount == 1
UsizeBits == 8

Threads == 1..NThreads
Days == 0..MaxDay
NoDay == 0 - 1

\* ------------------------------------------------------- time and calendar
\* Duration::days(1) in seconds
DaySecs == 86400

\* OffsetDateTime::unix_timestamp of midnight of day d (2022-05-29 is day
\* 19141 of the Unix epoch)
unix_timestamp(d) == (19141 + d) * DaySecs

\* OffsetDateTime::year / month / day of day d (window 2022-05-29 .. 2022-06-30)
Year(d) == 2022
Month(d) == IF d <= 2 THEN 5 ELSE 6
DayOfMonth(d) == IF d <= 2 THEN 29 + d ELSE d - 2

\* ------------------------------------------------------------- file names
DigitChars == <<"0", "1", "2", "3", "4", "5", "6", "7", "8", "9">>

RECURSIVE Pad(_, _)
\* format!("{:0w}", n) for 0 <= n < 10^w
Pad(n, w) == IF w = 0 THEN <<>> ELSE Pad(n \div 10, w - 1) \o <<DigitChars[(n % 10) + 1]>>

\* the appender's filename_prefix ("foo" in the tests)
filename_prefix == <<"f", "o", "o">>

\* format!("{}-{:04}{:02}{:02}.log", filename_prefix, year, month, day)
create_daily_log_filename(prefix, d) ==
    prefix \o <<"-">> \o Pad(Year(d), 4) \o Pad(Month(d), 2) \o Pad(DayOfMonth(d), 2)
           \o <<".", "l", "o", "g">>

IsDigit(c) == \E i \in 1..Len(DigitChars) : DigitChars[i] = c

\* Regex ^{prefix}-\d{8}.log$ for a prefix without regex metacharacters:
\* the prefix, '-', eight digits, ANY one character but a line feed (the
\* dot of the pattern is not escaped), then "log".
RegexIsMatch(filename, prefix) ==
    LET p == Len(prefix) IN
    /\ Len(filename) = p + 13
    /\ SubSeq(filename, 1, p) = prefix
    /\ filename[p + 1] = "-"
    /\ \A i \in (p + 2)..(p + 9) : IsDigit(filename[i])
    /\ filename[p + 10] # "\n"
    /\ SubSeq(filename, p + 11, p + 13) = <<"l", "o", "g">>

\* is_log_file: Some(filename) as {filename}, None as {}
is_log_file(filename, prefix) == IF RegexIsMatch(filename, prefix) THEN {filename} ELSE {}

\* byte value of the characters file names are made of (String's Ord is bytewise)
Byte(c) ==
    CASE c = "-" -> 45 [] c = "." -> 46
      [] c = "0" -> 48 [] c = "1" -> 49 [] c = "2" -> 50 [] c = "3" -> 51 [] c = "4" -> 52
      [] c = "5" -> 53 [] c = "6" -> 54 [] c = "7" -> 55 [] c = "8" -> 56 [] c = "9" -> 57
      [] c = "a" -> 97 [] c = "b" -> 98 [] c = "f" -> 102 [] c = "g" -> 103
      [] c = "l" -> 108 [] c = "o" -> 111 [] c = "r" -> 114 [] c = "t" -> 116
      [] c = "x" -> 120

RECURSIVE StrLess(_, _)
\* a < b for Strings: lexicographic over the bytes
StrLess(a, b) ==
    IF a = <<>> THEN b # <<>>
    ELSE IF b = <<>> THEN FALSE
    ELSE IF Head(a) = Head(b) THEN StrLess(Tail(a), Tail(b))
    ELSE Byte(Head(a)) < Byte(Head(b))


\* the directory entries the model looks at
LogNames == [d \in Days |-> create_daily_log_filename(filename_prefix, d)]
LogName(d) == LogNames[d]
DatedNames == {LogName(d) : d \in Days}
\* matched by the pattern although it does not end in ".log"
XlogName == <<"f", "o", "o", "-", "2", "0", "2", "2", "0", "5", "2", "7", "x", "l", "o", "g">>
OtherNames ==
    { <<"b", "a", "r", "-", "2", "0", "2", "2", "0", "5", "2", "7", ".", "l", "o", "g">>,
      <<"f", "o", "o", "-", "2", "0", "2", "2", "0", "5", "2", "a", ".", "l", "o", "g">>,
      <<"f", "o", "o", "-", "2", "0", "2", "2", "0", "5", "2", "7", ".", "t", "x", "t">>,
      <<"f", "o", "o", ".", "l", "o", "g">>,
      XlogName }
Names == DatedNames \cup OtherNames

\* the strings of Names greater than a
Greater == [a \in Names |-> {b \in Names : StrLess(a, b)}]

RECURSIVE SortStringsDescending(_)
\* the sort with the comparison reversed
SortStringsDescending(S) ==
    IF S = {} THEN <<>>
    ELSE LET m == CHOOSE x \in S : \A y \in S \ {x} : x \in Greater[y]
         IN <<m>> \o SortStringsDescending(S \ {m})

RECURSIVE SortStrings(_)
\* Vec<String>::sort of the strings of the set S: ascending
SortStrings(S) ==
    IF S = {} THEN <<>>
    ELSE LET m == CHOOSE x \in S : \A y \in S \ {x} : y \in Greater[x]
         IN <<m>> \o SortStrings(S \ {m})

\* the names of the form {prefix}-{8 decimal digits}.log
IsLogFormName(f) ==
    /\ Len(f) = Len(filename_prefix) + 13
    /\ SubSeq(f, 1, Len(filename_prefix) + 1) = filename_prefix \o <<"-">>
    /\ \A i \in (Len(filename_prefix) + 2)..(Len(filename_prefix) + 9) : IsDigit(f[i])
    /\ SubSeq(f, Len(filename_prefix) + 10, Len(filename_prefix) + 13) = <<".", "l", "o", "g">>


\* ------------------------------------------------------------------ state
\* The RwLock around the File is a reader/writer lock: read() is granted
\* while no write guard is out, write() while no guard at all is out.
VARIABLES
    clock,      \* the day OffsetDateTime::now_utc() is in
    next_date,  \* Inner.next_date: AtomicUsize, a Unix timestamp
    max_count,  \* Inner.max_count
    dir,        \* the names of the entries of Inner.directory
    writer,     \* DailyRollingFileAppender.writer: the File inside the RwLock
    readers,    \* the threads holding a RwLockReadGuard (a RollingWriter)
    pc,         \* where each thread is in write / make_writer
    today,      \* the local `today` of each thread's call
    current,    \* the local `current` of each thread's call
    began,      \* the period of the File installed when the thread's call began
    fresh,      \* the construction day while the clock has never been past it, else NoDay
    ev          \* what the last step did

vars == <<clock, next_date, max_count, dir, writer, readers, pc, today, current,
          began, fresh, ev>>

\* usize arithmetic
UsizeModulus == 2 ^ UsizeBits
Panic == 0 - 1

\* a - b on usize: a panic where overflow checks are compiled in (debug
\* profile), the wrapped value otherwise (release profile)
UsizeSub(a, b, overflow_checks) ==
    IF a = Panic \/ b = Panic THEN Panic
    ELSE IF a >= b THEN a - b
    ELSE IF overflow_checks THEN Panic
    ELSE a - b + UsizeModulus

\* the record of a step: the operation, its thread, the day a rotation was
\* for, the outcome of create_writer and of the retention pass, the names
\* the pass removed and those whose remove_file failed, the outcome of
\* File::write and the entry it appended to, the period of the File that
\* served the call and of the File installed when the call began, and the
\* way the call took
NoEvent ==
    [op |-> "none", t |-> 0, day |-> NoDay, open |-> "none", pass |-> "none",
     removed |-> {}, failed |-> {}, wrote |-> "none", to |-> <<>>, served |-> NoDay,
     began |-> NoDay, path |-> "none"]

Event(op, t) == [NoEvent EXCEPT !.op = op, !.t = t]

\* should_rollover comparing with "differs from" instead of "at or before"
should_rollover_ne(nd, now) == IF nd # unix_timestamp(now) THEN {nd} ELSE {}

\* Inner::should_rollover: Some(next_date) as {next_date}, None as {}
should_rollover(nd, now) == IF nd <= unix_timestamp(now) THEN {nd} ELSE {}

\* the value advance_date stores: today.unix_timestamp() as usize
advance_date_value(today_t) == unix_timestamp(today_t)

\* the File handle a successful create_writer returns for day d
OpenedFile(d) == [day |-> d, linked |-> TRUE]

\* the entry a File handle appends to
FileName(w) == LogName(w.day)

\* lines 240..248: the targets remove_old_files collects from the listing
LogFiles == UNION {is_log_file(e, filename_prefix) : e \in Names}
Targets(entries) == entries \cap LogFiles

\* the number of entries lines 250..252 slice off the sorted targets, or Panic
RemoveCount(n, mc, overflow_checks) ==
    LET last == UsizeSub(n, 1, overflow_checks) IN
    IF last = Panic THEN Panic
    ELSE IF mc < last
         THEN LET k == UsizeSub(n, mc + 1, overflow_checks) IN
              IF k = Panic \/ k > n THEN Panic ELSE k
         ELSE 0

\* remove_old_files giving up at the first remove_file that fails
remove_old_files_abort(entries, mc, list_ok, fail, overflow_checks) ==
    IF ~list_ok
    THEN [pass |-> "listerr", cand |-> {}, removed |-> {}]
    ELSE LET targets == Targets(entries)
             k == RemoveCount(Cardinality(targets), mc, overflow_checks)
         IN IF k = Panic
            THEN [pass |-> "panic", cand |-> {}, removed |-> {}]
            ELSE LET sorted == SortStrings(targets)
                     cand == {sorted[i] : i \in 1..k}
                 IN [pass |-> "done", cand |-> cand,
                     removed |-> {sorted[i] : i \in {n \in 1..k :
                                     \A j \in 1..n : sorted[j] \notin fail}}]

\* Inner::remove_old_files on the entries `entries`: list_ok says whether
\* read_dir succeeds, fail the names whose remove_file fails.
remove_old_files(entries, mc, list_ok, fail, overflow_checks) ==
    IF ~list_ok
    THEN [pass |-> "listerr", cand |-> {}, removed |-> {}]
    ELSE LET targets == Targets(entries)
             k == RemoveCount(Cardinality(targets), mc, overflow_checks)
         IN IF k = Panic
            THEN [pass |-> "panic", cand |-> {}, removed |-> {}]
            ELSE LET sorted == SortStrings(targets)
                     cand == {sorted[i] : i \in 1..k}
                 IN [pass |-> "done", cand |-> cand, removed |-> cand \ fail]

\* Inner::refresh_writer(today_t, file) with the outcomes of the file system:
\* the new directory, contents and File, and what the retention pass did.
\* (A failing flush of the previous File is only reported.)
refresh_writer(today_t, open_ok, list_ok, fail, overflow_checks) ==
    LET name == LogName(today_t)
        dir1 == IF open_ok THEN dir \cup {name} ELSE dir
        file1 == IF open_ok THEN OpenedFile(today_t) ELSE writer
        r == remove_old_files(dir1, max_count, list_ok, fail, overflow_checks)
    IN [dir |-> dir1 \ r.removed,
        writer |-> IF file1.linked /\ FileName(file1) \in r.removed
                   THEN [file1 EXCEPT !.linked = FALSE] ELSE file1,
        open |-> IF open_ok THEN "ok" ELSE "err",
        pass |-> r.pass,
        removed |-> r.removed,
        failed |-> r.cand \cap fail]

\* the failure sets a retention pass can meet: any subset of its candidates
FailSets(today_t, open_ok) ==
    SUBSET remove_old_files(IF open_ok THEN dir \cup {LogName(today_t)} ELSE dir,
                            max_count, TRUE, {}, FALSE).cand

\* File::write of one buffer through the handle w: whether it succeeds, and
\* the entry of the directory the bytes are appended to (<<>> when the
\* handle's file is no longer linked in the directory, or the write fails)
Forward(w, ok) ==
    [wrote |-> IF ok THEN "ok" ELSE "err",
     to |-> IF ok /\ w.linked THEN FileName(w) ELSE <<>>]

\* ------------------------------------------------------------------- Init
\* Inner::new on day c with max_count mc in a directory holding pre
New(c, mc, pre) ==
    /\ clock = c
    /\ next_date = unix_timestamp(c + 1)
    /\ max_count = mc
    /\ dir = pre \cup {LogName(c)}
    /\ writer = OpenedFile(c)
    /\ readers = {}
    /\ pc = [t \in Threads |-> "idle"]
    /\ today = [t \in Threads |-> NoDay]
    /\ current = [t \in Threads |-> 0]
    /\ began = [t \in Threads |-> NoDay]
    /\ fresh = c
    /\ ev = NoEvent

StartDays == 0..(MaxDay - 1)

Init == \E c \in StartDays, mc \in 0..MaxCount : New(c, mc, {})

\* ------------------------------------------------------------ environment
Tick ==
    /\ clock < MaxDay
    /\ clock' = clock + 1
    /\ fresh' = IF clock + 1 > fresh THEN NoDay ELSE fresh
    /\ ev' = NoEvent
    /\ UNCHANGED <<next_date, max_count, dir, writer, readers, pc, today, current, began>>

\* the system clock is set back one day
ClockBack ==
    /\ clock > 0
    /\ clock' = clock - 1
    /\ ev' = NoEvent
    /\ UNCHANGED <<next_date, max_count, dir, writer, readers, pc, today,
                   current, began, fresh>>

\* another process removes a log file from the directory
EnvRemove ==
    \E f \in dir \cap DatedNames :
        /\ dir' = dir \ {f}
        /\ writer' = IF writer.linked /\ FileName(writer) = f
                     THEN [writer EXCEPT !.linked = FALSE] ELSE writer
        /\ ev' = NoEvent
        /\ UNCHANGED <<clock, next_date, max_count, readers, pc, today, current, began, fresh>>

\* ------------------------------------------------------------ make_writer
Exclusive(t) == \A u \in Threads \ {t} : pc[u] \in {"idle", "panicked"}
NoWriteCall == \A u \in Threads : pc[u] \notin {"w_check", "w_cas", "w_refresh", "w_forward"}

\* crate::sync::RwLock::write: the exclusive guard is granted while no read
\* guard is out
RwLockWriteGranted == readers = {}

\* line 114: let today = today();
MakeWriterBegin(t) ==
    /\ pc[t] = "idle"
    /\ NoWriteCall
    /\ today' = [today EXCEPT ![t] = clock]
    /\ began' = [began EXCEPT ![t] = writer.day]
    /\ pc' = [pc EXCEPT ![t] = "mw_check"]
    /\ ev' = NoEvent
    /\ UNCHANGED <<clock, next_date, max_count, dir, writer, readers, current, fresh>>

\* line 115: self.state.should_rollover()
MakeWriterCheck(t) ==
    /\ pc[t] = "mw_check"
    /\ LET r == should_rollover(next_date, clock) IN
        /\ pc' = [pc EXCEPT ![t] = IF r = {} THEN "mw_read_none" ELSE "mw_cas"]
        /\ current' = [current EXCEPT ![t] = IF r = {} THEN 0 ELSE next_date]
        /\ ev' = [Event("check", t) EXCEPT !.path = IF r = {} THEN "none" ELSE "some"]
    /\ UNCHANGED <<clock, next_date, max_count, dir, writer, readers, today,
                   began, fresh>>

\* make_writer taking its read guard before the rotation instead of after it
MakeWriterAdvanceHoldingRead(t) ==
    /\ pc[t] = "mw_cas"
    /\ IF next_date = current[t]
       THEN /\ next_date' = advance_date_value(today[t])
            /\ pc' = [pc EXCEPT ![t] = "mw_refresh"]
            /\ readers' = readers \cup {t}
            /\ ev' = NoEvent
       ELSE /\ next_date' = next_date
            /\ pc' = [pc EXCEPT ![t] = "mw_read_lost"]
            /\ readers' = readers
            /\ ev' = NoEvent
    /\ UNCHANGED <<clock, max_count, dir, writer, today, current, began, fresh>>

\* line 116: self.state.advance_date(today, current)
MakeWriterAdvance(t) ==
    /\ pc[t] = "mw_cas"
    /\ IF next_date = current[t]
       THEN /\ next_date' = advance_date_value(today[t])
            /\ pc' = [pc EXCEPT ![t] = "mw_refresh"]
            /\ ev' = NoEvent
       ELSE /\ next_date' = next_date
            /\ pc' = [pc EXCEPT ![t] = "mw_read_lost"]
            /\ ev' = NoEvent
    /\ UNCHANGED <<clock, max_count, dir, writer, readers, today, current,
                   began, fresh>>

\* line 117: self.state.refresh_writer(&today, &mut *self.writer.write());
\* the write guard is taken when no read guard is out and is dropped at the
\* end of the statement, also when remove_old_files panics.
MakeWriterRefresh(t) ==
    /\ pc[t] = "mw_refresh"
    /\ RwLockWriteGranted
    /\ \E open_ok \in BOOLEAN, list_ok \in BOOLEAN, overflow_checks \in BOOLEAN :
       \E fail \in FailSets(today[t], open_ok) :
        LET r == refresh_writer(today[t], open_ok, list_ok, fail, overflow_checks) IN
        /\ dir' = r.dir
        /\ writer' = r.writer
        /\ pc' = [pc EXCEPT ![t] = IF r.pass = "panic" THEN "panicked" ELSE "mw_read_won"]
        /\ ev' = [Event("refresh", t) EXCEPT !.day = today[t], !.open = r.open,
                     !.pass = r.pass, !.removed = r.removed,
                     !.failed = r.failed, !.began = began[t],
                     !.path = "won"]
    /\ UNCHANGED <<clock, next_date, max_count, readers, today, current, began, fresh>>

\* make_writer returning a handle that holds no read guard
MakeWriterReadUnguarded(t) ==
    /\ pc[t] \in {"mw_read_none", "mw_read_lost", "mw_read_won"}
    /\ pc' = [pc EXCEPT ![t] = "holding"]
    /\ ev' = [Event("read", t) EXCEPT !.served = writer.day, !.began = began[t],
                 !.path = IF pc[t] = "mw_read_none" THEN "none"
                          ELSE IF pc[t] = "mw_read_lost" THEN "lost" ELSE "won"]
    /\ UNCHANGED <<clock, next_date, max_count, dir, writer, readers, today, current,
                   began, fresh>>

\* line 121: RollingWriter(self.writer.read())
MakeWriterRead(t) ==
    /\ pc[t] \in {"mw_read_none", "mw_read_lost", "mw_read_won"}
    /\ readers' = readers \cup {t}
    /\ pc' = [pc EXCEPT ![t] = "holding"]
    /\ ev' = [Event("read", t) EXCEPT !.served = writer.day, !.began = began[t],
                 !.path = IF pc[t] = "mw_read_none" THEN "none"
                          ELSE IF pc[t] = "mw_read_lost" THEN "lost" ELSE "won"]
    /\ UNCHANGED <<clock, next_date, max_count, dir, writer, today, current,
                   began, fresh>>

\* RollingWriter::write, lines 126..128
HandleWrite(t) ==
    /\ pc[t] = "holding"
    /\ \E ok \in BOOLEAN :
        LET r == Forward(writer, ok) IN
        /\ ev' = [Event("hwrite", t) EXCEPT !.wrote = r.wrote, !.to = r.to,
                     !.served = writer.day]
    /\ UNCHANGED <<clock, next_date, max_count, dir, writer, readers, pc, today, current,
                   began, fresh>>

\* the end of a call: the thread is idle again
CallDone(t, p) ==
    /\ pc' = [pc EXCEPT ![t] = p]
    /\ today' = [today EXCEPT ![t] = NoDay]
    /\ current' = [current EXCEPT ![t] = 0]
    /\ began' = [began EXCEPT ![t] = NoDay]

\* the RollingWriter is dropped: the read guard is released
HandleDrop(t) ==
    /\ pc[t] = "holding"
    /\ readers' = readers \ {t}
    /\ CallDone(t, "idle")
    /\ ev' = NoEvent
    /\ UNCHANGED <<clock, next_date, max_count, dir, writer, fresh>>

\* ------------------------------------------------------ io::Write::write
\* line 90: let today = today();  (&mut self: no other call, no handle out)
WriteBegin(t) ==
    /\ pc[t] = "idle"
    /\ Exclusive(t)
    /\ today' = [today EXCEPT ![t] = clock]
    /\ began' = [began EXCEPT ![t] = writer.day]
    /\ pc' = [pc EXCEPT ![t] = "w_check"]
    /\ ev' = NoEvent
    /\ UNCHANGED <<clock, next_date, max_count, dir, writer, readers, current, fresh>>

\* line 92: self.state.should_rollover()
WriteCheck(t) ==
    /\ pc[t] = "w_check"
    /\ LET r == should_rollover(next_date, clock) IN
        /\ pc' = [pc EXCEPT ![t] = IF r = {} THEN "w_forward" ELSE "w_cas"]
        /\ current' = [current EXCEPT ![t] = IF r = {} THEN 0 ELSE next_date]
        /\ ev' = [Event("check", t) EXCEPT !.path = IF r = {} THEN "none" ELSE "some"]
    /\ UNCHANGED <<clock, next_date, max_count, dir, writer, readers, today,
                   began, fresh>>

\* lines 93..98: advance_date and the debug_assert on its result
WriteAdvance(t) ==
    /\ pc[t] = "w_cas"
    /\ IF next_date = current[t]
       THEN /\ next_date' = advance_date_value(today[t])
            /\ pc' = [pc EXCEPT ![t] = "w_refresh"]
            /\ ev' = NoEvent
       ELSE /\ next_date' = next_date
            /\ \E debug_assertions \in BOOLEAN :
                 pc' = [pc EXCEPT ![t] = IF debug_assertions THEN "panicked"
                                         ELSE "w_refresh"]
            /\ ev' = NoEvent
    /\ UNCHANGED <<clock, max_count, dir, writer, readers, today, current,
                   began, fresh>>

\* lines 99..102: refresh_writer(&today, writer), then writer.write(buf)
WriteRefresh(t) ==
    /\ pc[t] = "w_refresh"
    /\ \E open_ok \in BOOLEAN, list_ok \in BOOLEAN, overflow_checks \in BOOLEAN,
          write_ok \in BOOLEAN :
       \E fail \in FailSets(today[t], open_ok) :
        LET r == refresh_writer(today[t], open_ok, list_ok, fail, overflow_checks)
            panicked == r.pass = "panic"
            w == Forward(r.writer, write_ok)
        IN
        /\ dir' = r.dir
        /\ writer' = r.writer
        /\ CallDone(t, IF panicked THEN "panicked" ELSE "idle")
        /\ ev' = [Event("write", t) EXCEPT !.day = today[t], !.open = r.open,
                     !.pass = r.pass, !.removed = r.removed,
                     !.failed = r.failed,
                     !.wrote = IF panicked THEN "none" ELSE w.wrote,
                     !.to = IF panicked THEN <<>> ELSE w.to,
                     !.served = IF panicked THEN NoDay ELSE r.writer.day,
                     !.began = began[t], !.path = "won"]
    /\ UNCHANGED <<clock, next_date, max_count, readers, fresh>>

\* line 102 when should_rollover returned None: writer.write(buf)
WriteForward(t) ==
    /\ pc[t] = "w_forward"
    /\ \E write_ok \in BOOLEAN :
        LET w == Forward(writer, write_ok) IN
        /\ ev' = [Event("write", t) EXCEPT !.wrote = w.wrote, !.to = w.to,
                     !.served = writer.day, !.began = began[t], !.path = "none"]
    /\ CallDone(t, "idle")
    /\ UNCHANGED <<clock, next_date, max_count, dir, writer, readers, fresh>>

\* DailyRollingFileAppender::flush with a rotation in it, as write has
FlushWithRollover(t) ==
    /\ pc[t] = "idle"
    /\ Exclusive(t)
    /\ next_date' = IF should_rollover(next_date, clock) = {} THEN next_date
                    ELSE advance_date_value(clock)
    /\ \E ok \in BOOLEAN :
        ev' = [Event("flush", t) EXCEPT !.wrote = IF ok THEN "ok" ELSE "err",
                  !.served = writer.day]
    /\ UNCHANGED <<clock, max_count, dir, writer, readers, pc, today, current, began, fresh>>

\* lines 105..107: self.writer.get_mut().flush()  (&mut self: no other call,
\* no handle out); File::flush succeeds or fails
Flush(t) ==
    /\ pc[t] = "idle"
    /\ Exclusive(t)
    /\ \E ok \in BOOLEAN :
        ev' = [Event("flush", t) EXCEPT !.wrote = IF ok THEN "ok" ELSE "err",
                  !.served = writer.day]
    /\ UNCHANGED <<clock, next_date, max_count, dir, writer, readers, pc, today, current,
                   began, fresh>>

\* RollingWriter::flush, lines 130..132: (&*self.0).flush()
HandleFlush(t) ==
    /\ pc[t] = "holding"
    /\ \E ok \in BOOLEAN :
        ev' = [Event("hflush", t) EXCEPT !.wrote = IF ok THEN "ok" ELSE "err",
                  !.served = writer.day]
    /\ UNCHANGED <<clock, next_date, max_count, dir, writer, readers, pc, today, current,
                   began, fresh>>

\* ------------------------------------------------------------------- Next
\* N threads sharing the appender under a clock that only advances
Next ==
    \/ Tick
    \/ \E t \in Threads : MakeWriterBegin(t)
    \/ \E t \in Threads : MakeWriterCheck(t)
    \/ \E t \in Threads : MakeWriterAdvance(t)
    \/ \E t \in Threads : MakeWriterRefresh(t)
    \/ \E t \in Threads : MakeWriterRead(t)
    \/ \E t \in Threads : HandleWrite(t)
    \/ \E t \in Threads : HandleDrop(t)
    \/ \E t \in Threads : WriteBegin(t)
    \/ \E t \in Threads : WriteCheck(t)
    \/ \E t \in Threads : WriteAdvance(t)
    \/ \E t \in Threads : WriteRefresh(t)
    \/ \E t \in Threads : WriteForward(t)
    \/ \E t \in Threads : Flush(t)
    \/ \E t \in Threads : HandleFlush(t)

Spec == Init /\ [][Next]_vars

\* one thread using the appender in a directory with any of the entries of
\* Names, under a clock that can also be set back, with another process
\* removing log files
PreDirs == {S \cup O : S \in SUBSET DatedNames, O \in {{}, OtherNames}}

InitSeq == \E c \in StartDays, mc \in 0..MaxCount, pre \in PreDirs : New(c, mc, pre)

NextSeq ==
    \/ Tick
    \/ ClockBack
    \/ EnvRemove
    \/ MakeWriterBegin(1)
    \/ MakeWriterCheck(1)
    \/ MakeWriterAdvance(1)
    \/ MakeWriterRefresh(1)
    \/ MakeWriterRead(1)
    \/ HandleWrite(1)
    \/ HandleDrop(1)
    \/ WriteBegin(1)
    \/ WriteCheck(1)
    \/ WriteAdvance(1)
    \/ WriteRefresh(1)
    \/ WriteForward(1)
    \/ Flush(1)
    \/ HandleFlush(1)

SpecSeq == InitSeq /\ [][NextSeq]_vars

\* threads that only acquire handles with make_writer, write and flush through
\* them and drop them, under a scheduler that lets every thread that can take
\* a step take it, a lock that grants a guard to a thread that can be granted
\* it again and again, and callers that drop their handles
NextHandles ==
    \/ Tick
    \/ \E t \in Threads : MakeWriterBegin(t)
    \/ \E t \in Threads : MakeWriterCheck(t)
    \/ \E t \in Threads : MakeWriterAdvance(t)
    \/ \E t \in Threads : MakeWriterRefresh(t)
    \/ \E t \in Threads : MakeWriterRead(t)
    \/ \E t \in Threads : HandleWrite(t)
    \/ \E t \in Threads : HandleFlush(t)
    \/ \E t \in Threads : HandleDrop(t)

FairHandles ==
    \A t \in Threads :
        /\ WF_vars(MakeWriterCheck(t))
        /\ WF_vars(MakeWriterAdvance(t))
        /\ SF_vars(MakeWriterRefresh(t))
        /\ WF_vars(MakeWriterRead(t))
        /\ WF_vars(HandleDrop(t))

SpecHandles == Init /\ [][NextHandles]_vars /\ FairHandles

\* ============================================================ properties
\* the last step ran refresh_writer (from make_writer or from write)
Rotated == ev.op = "refresh" \/ (ev.op = "write" /\ ev.path = "won")

\* the last step ran a retention pass to its end
PassDone == Rotated /\ ev.pass = "done"

\* the threads whose compare-and-swap in advance_date has succeeded and
\* whose make_writer call has not yet returned its handle
Winners == {t \in Threads : pc[t] \in {"mw_refresh", "mw_read_won"}}

\* C1: of the threads that call make_writer concurrently and detect staleness
\* on the same stored date, exactly one performs the rotation: no two threads
\* win the compare-and-swap on the same observed date, the others skip
\* refresh_writer.
C1_SingleWinner ==
    \A t \in Winners : \A u \in Winners \ {t} : current[t] # current[u]

\* C2: should_rollover returns a value only when the period the active file
\* was opened for is strictly earlier than the clock's period; after a
\* rotation to the current period it returns nothing.
C2_RolloverOnlyWhenStale ==
    (ev.op = "check" /\ ev.path = "some") => writer.day < clock

\* C3: after a retention pass whose listing and deletions all succeed, at
\* most max_count files matching the log-file pattern are in the directory.
C3_AtMostMaxCount ==
    (PassDone /\ ev.failed = {} /\ max_count >= 1)
        => Cardinality(Targets(dir)) <= max_count

\* C4 as stated: of two matching files a < b present before a retention
\* pass, if a survives the pass then b survives it.
C4_SurvivorsAreGreatest ==
    PassDone =>
        \A a \in Targets(dir \cup ev.removed) : \A b \in Targets(dir \cup ev.removed) :
            (StrLess(a, b) /\ a \in dir) => b \in dir

\* C4 as amended: of two matching files a < b present before a retention
\* pass, if a survives the pass and no remove_file of a failed in it, then b
\* survives it.
C4_SurvivorsAreGreatestUnlessFailed ==
    PassDone =>
        \A a \in Targets(dir \cup ev.removed) : \A b \in Targets(dir \cup ev.removed) :
            (StrLess(a, b) /\ a \in dir /\ a \notin ev.failed) => b \in dir

\* a pass that removed a file, failed to remove another and left a file it
\* did not try to remove
C4_Witness ==
    /\ PassDone
    /\ ev.removed # {}
    /\ ev.failed # {}
    /\ Targets(dir) \ ev.failed # {}

\* C5: a retention pass removes no file whose name is not of the form
\* {prefix}-{8 decimal digits}.log.
C5_OnlyLogFormRemoved ==
    Rotated => \A f \in ev.removed : IsLogFormName(f)

\* C6: when the open of the new period's file fails during a rotation, the
\* call does not panic, the File installed before stays installed, and a
\* write call forwards its bytes to it and returns its write result.
C6_OpenFailureNotFatal ==
    (Rotated /\ ev.open = "err") =>
        /\ ev.pass # "panic"
        /\ writer.day = ev.began
        /\ ev.op = "write" => (ev.served = ev.began /\ ev.wrote # "none")

\* C7: a write call made with the clock at a period P' later than the period
\* P of the installed file, whose open of P''s file succeeds, appends its
\* bytes to the entry named for P' (and to no other).
C7_WriteLandsInNewFile ==
    (ev.op = "write" /\ ev.path = "won" /\ ev.open = "ok" /\ ev.wrote = "ok"
        /\ ev.began < ev.day)
        => ev.to = LogName(ev.day)

\* C8: while the clock has never been past the construction period (it may
\* have been set back), no call finds should_rollover returning a value, no
\* file is opened, no retention pass runs, the stored date and the installed
\* File are those of construction, and every call is served by that File.
C8_NoPrematureRotation ==
    fresh # NoDay =>
        /\ writer.day = fresh
        /\ next_date = unix_timestamp(fresh + 1)
        /\ \A t \in Threads :
              pc[t] \in {"idle", "mw_check", "mw_read_none", "holding", "w_check", "w_forward"}
        /\ ~Rotated
        /\ ev.open = "none" /\ ev.pass = "none"
        /\ ev.op = "check" => ev.path = "none"
        /\ ev.op \in {"read", "hwrite", "write"} => ev.served = fresh

\* a write served after the clock was set back to before the construction period
C8_Witness ==
    /\ fresh # NoDay
    /\ clock < fresh
    /\ ev.op = "write"
    /\ ev.wrote = "ok"
    /\ ev.to = LogName(fresh)

\* C9: a call is never served by a File of a period earlier than that of the
\* File that was installed when the call began.
C9_Linearizable ==
    (ev.op \in {"read", "write"} /\ ev.served # NoDay) => ev.served >= ev.began

\* C10: a make_writer call whose compare-and-swap failed returns a handle
\* over the file of the thread that won: while a winner has not yet run
\* refresh_writer, the handle is already over the file of the winner's period.
C10_LoserGetsNewFile ==
    (ev.op = "read" /\ ev.path = "lost")
        => \A u \in Threads : pc[u] = "mw_refresh" => ev.served = today[u]

\* C11: flush never triggers rotation: a step of DailyRollingFileAppender::flush
\* or of RollingWriter::flush, whatever the stored date and the clock, leaves
\* the stored rotation date, the installed File and the entries of the
\* directory unchanged.
C11_FlushNeverRotates ==
    [][ev'.op \in {"flush", "hflush"}
          => (next_date' = next_date /\ writer' = writer /\ dir' = dir)]_vars

\* a flush of the appender and of a handle with the clock past the stored date
C11_Witness ==
    /\ ev.op \in {"flush", "hflush"}
    /\ next_date <= unix_timestamp(clock)
    /\ writer.day < clock

\* C12: every write made through a handle that returns successfully has
\* appended its bytes to exactly one entry of the directory, the file of the
\* period the handle is over: no write is lost.
C12_NoLostWrite ==
    (ev.op = "hwrite" /\ ev.wrote = "ok") => ev.to = LogName(ev.served)

\* C13: a rotation whose create_writer call fails runs no retention pass: it
\* lists no directory and removes no file.
C13_RetentionOnlyAfterOpen ==
    (Rotated /\ ev.open = "err") => (ev.pass = "none" /\ ev.removed = {})

\* C14 as stated: a handle that is still held does not prevent a rotation
\* from completing: a thread that has won advance_date can run
\* refresh_writer and install the new File whatever handles are live.
C14_HeldHandleDoesNotBlockRotation ==
    \A t \in Threads : pc[t] = "mw_refresh" => ENABLED MakeWriterRefresh(t)

\* C14 as amended: a handle that is still held delays the rotation: while a
\* handle is live no step runs refresh_writer or changes the installed File,
\* and a write through the handle goes to the File that is still installed.
C14_HeldHandleDelaysRotation ==
    [][(\E t \in Threads : pc[t] = "holding")
          => /\ writer' = writer
             /\ ~Rotated'
             /\ ev'.op = "hwrite" => ev'.served = writer.day]_vars

\* a handle acquired before the boundary writes while another thread, past
\* its compare-and-swap, waits to rotate
C14_Witness ==
    \E t \in Threads : \E u \in Threads \ {t} :
        /\ pc[t] = "holding"
        /\ pc[u] = "mw_refresh"
        /\ writer.day < today[u]
        /\ ev.op = "hwrite" /\ ev.t = t /\ ev.wrote = "ok"
        /\ ev.to = LogName(writer.day)

C16_DeletionsIndependent ==
    /\ PassDone =>
          LET before == Targets(dir \cup ev.removed)
              expected == {a \in before :
                              Cardinality(Greater[a] \cap before) >= max_count + 1}
          IN
          /\ ev.failed \subseteq expected
          /\ ev.removed = expected \ ev.failed
          /\ ev.op = "write" => (ev.wrote # "none" /\ ev.served = writer.day)
    /\ (Rotated /\ ev.pass = "listerr") => (ev.removed = {} /\ ev.failed = {})

\* a write whose rotation removed one candidate and failed to remove another
C16_Witness ==
    /\ PassDone
    /\ ev.op = "write" /\ ev.wrote = "ok"
    /\ ev.failed # {}
    /\ ev.removed # {}
    /\ \E a \in ev.failed : \E b \in ev.removed : StrLess(a, b)

\* C17: under a clock that never moves backward the stored rotation date
\* never decreases, and a rotation never installs the File of a period
\* earlier than that of the File it replaces.
C17_NextDateNeverDecreases ==
    [][/\ next_date' >= next_date
       /\ writer'.day >= writer.day]_vars

\* C18: a retention pass never removes the file that is installed as the
\* active file when the pass ends.
C18_ActiveFileNotRemoved ==
    Rotated => FileName(writer) \notin ev.removed

\* C19: remove_old_files computes its deletion range without unsigned
\* underflow: no retention pass ends in a panic, whatever the number of
\* matching files and max_count.
C19_NoUnderflow ==
    Rotated => ev.pass # "panic"

====
